---- MODULE Spec2Model ----
(***************************************************************************)
(* A model of castor's calibration-and-registration engine:                *)
(*   - the cache-or-compute store (files_handling.open_or_compute),        *)
(*   - the registration batch (tools.register_stars) and the alignment     *)
(*     loop of the pointing analysis (pointing_analysis.main),             *)
(*   - the source matcher (tools.find_closest_sources),                    *)
(*   - the master frame builder (tools.create_master),                     *)
(*   - the calibration reducer (tools.reduction),                          *)
(*   - the console entry points (align.main, prepare_spectra.main).        *)
(* Each component has its own specification over the shared variables;     *)
(* the variables of the other components stay at their idle values.        *)
(***************************************************************************)
EXTENDS Integers, Sequences, FiniteSets, TLC

VARIABLES
    \* ---- cache-or-compute store
    file,        \* content of the target file of open_or_compute
    pc,          \* per caller: position inside open_or_compute
    cur,         \* per caller: the locals of the running call
    calls,       \* number of finished calls
    first,       \* record of the first finished call
    last,        \* record of the latest finished call
    allSaved,    \* every call so far had save enabled and no failing write
    \* ---- registration batch / pointing-analysis alignment loop
    mode,        \* which routine runs: "register_stars" or "pointing"
    apc,         \* position inside the routine
    input,       \* the cube as the caller passed it
    images,      \* the cube object the routine works on
    refGiven,    \* register_stars: a reference image was supplied
    i,           \* loop index (Python's, frame i is images[i + 1])
    transforms,  \* pointing analysis: the transform list
    awarnings,   \* warnings emitted so far
    solved,      \* per frame: how its estimation ended
    ref_sources, \* the sources of the reference image
    attempts,    \* per frame: the calls of the solver, each with the
                 \* reference sources it was given
    result,      \* what the routine returned
    \* ---- source matcher
    catalog,     \* find_closest_sources: the catalog rows
    coordinates, \* the query coordinates
    mpc,         \* position inside find_closest_sources
    dist,        \* the (m, n) distance matrix
    i_cat,       \* row indices of the matches
    i_input,     \* column indices of the matches
    matched,     \* the returned (filtered_catalog, dist)
    \* ---- master frame builder
    listing,     \* the directory on disk: missing, or the names in it
    passed,      \* create_master: the filenames argument as passed
    default,     \* the default argument
    filenames,   \* the local variable filenames
    cpc,         \* position inside create_master
    master,      \* the accumulator, then the returned value
    nadded,      \* number of files accumulated
    cwarnings,   \* warnings emitted
    raised,      \* the exception that left create_master
    \* ---- calibration reducer
    dirs,        \* reduction: the four directories on disk
    dateobs,     \* the DATE-OBS header of each science file
    rpc,         \* position inside reduction
    masters,     \* master_sci_dark, master_flat_dark, master_flat
    sci_filenames, \* the local variable sci_filenames
    timestamps,  \* the local variable timestamps
    sci_images,  \* the cube being filled
    rwarnings,   \* warnings emitted
    reduced,     \* how reduction ended: the returned pair, or the error
    \* ---- console entry points
    script,      \* which main() runs: "align" or "prepare_spectra"
    overwrite,   \* args.overwrite
    haveInput,   \* the input files of the run exist
    disk,        \* per write target: what is at its path
    entry,       \* disk as it was when main() was entered
    spc,         \* position inside main()
    effects,     \* what main() has done so far: loads, computations, writes
    error        \* the exception that left main(), and where it was raised

cacheVars == <<file, pc, cur, calls, first, last, allSaved>>
alignVars == <<mode, apc, input, images, refGiven, i, transforms, awarnings,
               solved, ref_sources, attempts, result>>

matchVars == <<catalog, coordinates, mpc, dist, i_cat, i_input, matched>>

masterVars == <<listing, passed, default, filenames, cpc, master, nadded,
                cwarnings, raised>>

reduceVars == <<dirs, dateobs, rpc, masters, sci_filenames, timestamps,
                sci_images, rwarnings, reduced>>

consoleVars == <<script, overwrite, haveInput, disk, entry, spc, effects,
                 error>>

notCache == <<alignVars, matchVars, masterVars, reduceVars, consoleVars>>
notAlign == <<cacheVars, matchVars, masterVars, reduceVars, consoleVars>>
notMatch == <<cacheVars, alignVars, masterVars, reduceVars, consoleVars>>
notMaster == <<cacheVars, alignVars, matchVars, reduceVars, consoleVars>>
notReduce == <<cacheVars, alignVars, matchVars, masterVars, consoleVars>>
notConsole == <<cacheVars, alignVars, matchVars, masterVars, reduceVars>>

vars == <<cacheVars, alignVars, matchVars, masterVars, reduceVars,
          consoleVars>>

(***************************************************************************)
(* Bounds                                                                   *)
(***************************************************************************)
MaxCalls == 3
MaxRaceCalls == 2
MaxFrames == 3
MaxCatalog == 2
MaxQueries == 2

(***************************************************************************)
(* Cache-or-compute store: values                                           *)
(***************************************************************************)

\* A timestamp is a datetime: wall-clock second t, microseconds us (0: none),
\* and, when aware, a UTC offset in minutes.
Stamp(t, us, aware, off) == [t |-> t, us |-> us, aware |-> aware, off |-> off]

\* What the compute function returns for each of its argument tuples: a cube
\* and the acquisition timestamps parsed from the DATE-OBS headers.
Args == {1, 2, 3}

function(a) ==
    CASE a = 1 -> [cube |-> <<10, 11>>,
                   timestamps |-> <<Stamp(1, 0, FALSE, 0), Stamp(2, 5, FALSE, 0)>>]
      [] a = 2 -> [cube |-> <<20, 21>>,
                   timestamps |-> <<Stamp(1, 0, TRUE, 0), Stamp(2, 5, TRUE, 0)>>]
      [] a = 3 -> [cube |-> <<30>>,
                   timestamps |-> <<Stamp(3, 5, TRUE, 330)>>]

\* The width of the DATE-OBS column of the timestamps table (format '29A').
ColumnWidth == 29

\* str(datetime): 'YYYY-MM-DD HH:MM:SS' (19 characters), '.ffffff' (7) when
\* the microseconds are not zero, '+HH:MM' (6) when the datetime is aware.
\* The text is kept as its fields; tz is "none", "hh" (hours only) or "hhmm".
StrOf(ts) ==
    [t |-> ts.t, us |-> ts.us,
     tz |-> IF ts.aware THEN "hhmm" ELSE "none",
     h |-> IF ts.aware THEN ts.off \div 60 ELSE 0,
     m |-> IF ts.aware THEN ts.off % 60 ELSE 0]

TextLen(s) ==
    19 + (IF s.us # 0 THEN 7 ELSE 0)
       + (CASE s.tz = "hhmm" -> 6 [] s.tz = "hh" -> 3 [] OTHER -> 0)

\* Storing a text in a fixed-width character column keeps its first `width`
\* characters.
Truncate(s, width) ==
    IF TextLen(s) <= width THEN s
    ELSE LET fracLen == IF s.us # 0 THEN 7 ELSE 0
             keepFrac == 19 + fracLen <= width
             rem == width - 19 - fracLen
         IN  [t |-> s.t,
              us |-> IF keepFrac THEN s.us ELSE 0,
              tz |-> IF s.tz = "none" \/ rem < 3 THEN "none"
                     ELSE IF rem < 6 THEN "hh" ELSE s.tz,
              h |-> IF s.tz = "none" \/ rem < 3 THEN 0 ELSE s.h,
              m |-> IF s.tz = "none" \/ rem < 6 THEN 0 ELSE s.m]

\* dateutil.parser.parse of a stored text.
Parse(s) == Stamp(s.t, s.us, s.tz # "none", s.h * 60 + s.m)

Absent == [state |-> "absent"]
Partial == [state |-> "partial"]

ColumnOf(ts) == Truncate(StrOf(ts), ColumnWidth)

\* save_fits: the primary HDU holds the cube, the table HDU the timestamps as
\* a column of 29 characters.
HDUList(data) ==
    [state |-> "complete",
     primary |-> data.cube,
     table |-> [k \in 1..Len(data.timestamps) |-> ColumnOf(data.timestamps[k])]]

\* load_fits_data(path, norm_to_exptime=False, timestamps_hdu=1)
load_fits_data(f) ==
    [cube |-> f.primary,
     timestamps |-> [k \in 1..Len(f.table) |-> Parse(f.table[k])]]

\* A store that never finds its file (the cache is never hit).
FileNotFoundAlways(f) == f.state \in {"absent", "complete", "partial"}

\* fits.open raises FileNotFoundError exactly when nothing is at the path.
FileNotFound(f) == f.state = "absent"

\* A failure handler that leaves the file where it is.
remove_nothing(f) == f

\* os.remove(filename), with a file at the path
remove(f) == Absent

NoData == [none |-> TRUE]
NoCall == [none |-> TRUE]

(***************************************************************************)
(* Cache-or-compute store: open_or_compute, one step per statement         *)
(***************************************************************************)
Callers == {1, 2}

\* The ways hdulist.writeto can end once the existence check has passed:
\* written; an error before the file is created (missing directory, no
\* permission); an error after the file was created (disk full).
WriteOutcomes == {"written", "failed_before_create", "failed_after_create"}

ExceptionOf(outcome) ==
    CASE outcome = "failed_before_create" -> "PermissionError"
      [] outcome = "failed_after_create" -> "OSError"
      [] outcome = "refused" -> "OSError"
      [] OTHER -> "none"

\* The calls entered so far: the finished ones and the running ones.
Started == calls + Cardinality({p \in Callers : pc[p] \notin {"idle", "off"}})

\* The number of calls of a run: MaxCalls for a single caller, MaxRaceCalls
\* when two callers run concurrently.
CallBudget ==
    IF \E p \in Callers : pc[p] = "off" THEN MaxCalls ELSE MaxRaceCalls

\* open_or_compute(filename, function, *args, save=True) is entered.
Call(p) ==
    /\ pc[p] = "idle"
    /\ Started < CallBudget
    /\ \E a \in Args, s \in BOOLEAN :
          cur' = [cur EXCEPT ![p] =
                    [args |-> a, save |-> s, before |-> file,
                     data |-> NoData, computes |-> 0, warnings |-> <<>>,
                     write |-> "none"]]
    /\ pc' = [pc EXCEPT ![p] = "load"]
    /\ UNCHANGED <<file, calls, first, last, allSaved, notCache>>

\* try: data, timestamps = load_fits_data(filename, ...)
\* except FileNotFoundError: fall through to the computation.
Load(p) ==
    /\ pc[p] = "load"
    /\ IF FileNotFound(file)
       THEN /\ pc' = [pc EXCEPT ![p] = "compute"]
            /\ cur' = cur
       ELSE IF file.state = "complete"
       THEN /\ pc' = [pc EXCEPT ![p] = "return"]
            /\ cur' = [cur EXCEPT ![p].data = load_fits_data(file)]
       ELSE \* a truncated file: fits.open raises, and nothing catches it
            /\ pc' = [pc EXCEPT ![p] = "raise"]
            /\ cur' = cur
    /\ UNCHANGED <<file, calls, first, last, allSaved, notCache>>

\* data, timestamps = function(*args, **kwargs); if save: ...
Compute(p) ==
    /\ pc[p] = "compute"
    /\ cur' = [cur EXCEPT ![p].data = function(cur[p].args),
                          ![p].computes = @ + 1]
    /\ pc' = [pc EXCEPT ![p] = IF cur[p].save THEN "save" ELSE "return"]
    /\ UNCHANGED <<file, calls, first, last, allSaved, notCache>>

\* save_fits -> hdulist.writeto(filename, overwrite=False): an existing file
\* is refused with OSError before anything is written.
SaveCheck(p) ==
    /\ pc[p] = "save"
    /\ IF FileNotFound(file)
       THEN /\ pc' = [pc EXCEPT ![p] = "write"]
            /\ cur' = cur
       ELSE /\ pc' = [pc EXCEPT ![p] = "cleanup"]
            /\ cur' = [cur EXCEPT ![p].write = "refused"]
    /\ UNCHANGED <<file, calls, first, last, allSaved, notCache>>

\* hdulist.writeto creates the file and writes the HDUs.
SaveWrite(p) ==
    /\ pc[p] = "write"
    /\ \E outcome \in WriteOutcomes :
          /\ cur' = [cur EXCEPT ![p].write = outcome]
          /\ file' = CASE outcome = "written" -> HDUList(cur[p].data)
                       [] outcome = "failed_after_create" -> Partial
                       [] OTHER -> file
          /\ pc' = [pc EXCEPT ![p] =
                      IF outcome = "written" THEN "return" ELSE "cleanup"]
    /\ UNCHANGED <<calls, first, last, allSaved, notCache>>

\* except Exception as e: os.remove(filename); warnings.warn(...)
\* os.remove raises FileNotFoundError when nothing is at the path; the
\* handler ends there, before the warning, and the error leaves the call.
Cleanup(p) ==
    /\ pc[p] = "cleanup"
    /\ IF FileNotFound(file)
       THEN /\ pc' = [pc EXCEPT ![p] = "raise"]
            /\ UNCHANGED <<file, cur>>
       ELSE /\ file' = remove(file)
            /\ cur' = [cur EXCEPT ![p].warnings =
                          Append(@, [class |-> ExceptionOf(cur[p].write),
                                     saving |-> "filename"])]
            /\ pc' = [pc EXCEPT ![p] = "return"]
    /\ UNCHANGED <<calls, first, last, allSaved, notCache>>

\* What a finished call leaves behind.
CallRecord(p, outcome) ==
    [args |-> cur[p].args, save |-> cur[p].save, before |-> cur[p].before,
     after |-> file, outcome |-> outcome,
     ret |-> IF outcome = "returned" THEN cur[p].data ELSE NoData,
     computes |-> cur[p].computes, warnings |-> cur[p].warnings,
     write |-> cur[p].write]

Finish(p, outcome) ==
    /\ last' = CallRecord(p, outcome)
    /\ first' = IF calls = 0 THEN CallRecord(p, outcome) ELSE first
    /\ allSaved' = (allSaved /\ cur[p].save /\ outcome = "returned"
                    /\ cur[p].write \in {"none", "written"})
    /\ calls' = calls + 1
    /\ cur' = [cur EXCEPT ![p] = NoCall]
    /\ pc' = [pc EXCEPT ![p] = "idle"]
    /\ UNCHANGED <<file, notCache>>

\* return data, timestamps
Return(p) ==
    /\ pc[p] = "return"
    /\ Finish(p, "returned")

\* an exception leaves open_or_compute
Raise(p) ==
    /\ pc[p] = "raise"
    /\ Finish(p, "raised")

\* The target before the first call: nothing, or a cube file written earlier.
InitFiles == {Absent} \cup {HDUList(function(a)) : a \in Args}

\* The other components at rest.
IdleAlign ==
    /\ mode = "idle"
    /\ apc = "idle"
    /\ input = <<>>
    /\ images = <<>>
    /\ refGiven = FALSE
    /\ i = 0
    /\ transforms = <<>>
    /\ awarnings = <<>>
    /\ solved = <<>>
    /\ ref_sources = NoData
    /\ attempts = <<>>
    /\ result = NoData

IdleMatch ==
    /\ catalog = <<>>
    /\ coordinates = <<>>
    /\ mpc = "idle"
    /\ dist = <<>>
    /\ i_cat = <<>>
    /\ i_input = <<>>
    /\ matched = NoData

IdleMaster ==
    /\ listing = [exists |-> FALSE, names |-> {}]
    /\ passed = NoData
    /\ default = NoData
    /\ filenames = NoData
    /\ cpc = "idle"
    /\ master = NoData
    /\ nadded = 0
    /\ cwarnings = <<>>
    /\ raised = "none"

IdleReduce ==
    /\ dirs = NoData
    /\ dateobs = NoData
    /\ rpc = "idle"
    /\ masters = NoData
    /\ sci_filenames = <<>>
    /\ timestamps = <<>>
    /\ sci_images = <<>>
    /\ rwarnings = <<>>
    /\ reduced = NoData

IdleConsole ==
    /\ script = "idle"
    /\ overwrite = FALSE
    /\ haveInput = FALSE
    /\ disk = NoData
    /\ entry = NoData
    /\ spc = "idle"
    /\ effects = <<>>
    /\ error = NoData

InitCache ==
    /\ IdleAlign
    /\ IdleMatch
    /\ IdleMaster
    /\ IdleReduce
    /\ IdleConsole
    /\ file \in InitFiles
    /\ pc = [p \in Callers |-> IF p = 1 THEN "idle" ELSE "off"]
    /\ cur = [p \in Callers |-> NoCall]
    /\ calls = 0
    /\ first = NoCall
    /\ last = NoCall
    /\ allSaved = TRUE

NextCache ==
    \E p \in Callers :
        \/ Call(p)
        \/ Load(p)
        \/ Compute(p)
        \/ SaveCheck(p)
        \/ SaveWrite(p)
        \/ Cleanup(p)
        \/ Return(p)
        \/ Raise(p)

\* A single caller calling open_or_compute on one target again and again.
SpecCache == InitCache /\ [][NextCache]_vars

InitRace ==
    /\ IdleAlign
    /\ IdleMatch
    /\ IdleMaster
    /\ IdleReduce
    /\ IdleConsole
    /\ file = Absent
    /\ pc = [p \in Callers |-> "idle"]
    /\ cur = [p \in Callers |-> NoCall]
    /\ calls = 0
    /\ first = NoCall
    /\ last = NoCall
    /\ allSaved = TRUE

\* Two callers calling open_or_compute on one target, initially absent,
\* their statements interleaved.
SpecRace == InitRace /\ [][NextCache]_vars

(***************************************************************************)
(* Cache-or-compute store: claims                                           *)
(***************************************************************************)
Finished == calls > 0

SaveFailed(c) == c.write \in {"failed_before_create", "failed_after_create", "refused"}

\* C1: open_or_compute with the target absent and save enabled: whenever the
\* save step fails, at any point, the call leaves no file at the target,
\* emits exactly one warning naming the exception class, and returns the
\* freshly computed (cube, timestamps) instead of raising.
C1_SaveFailureContained ==
    (Finished /\ FileNotFound(last.before) /\ last.save /\ SaveFailed(last))
        => /\ FileNotFound(last.after)
           /\ Len(last.warnings) = 1
           /\ last.warnings[1].class = ExceptionOf(last.write)
           /\ last.outcome = "returned"
           /\ last.ret = function(last.args)

\* C2: open_or_compute with the target file present: the call returns the
\* content loaded from the file, never invokes the compute function and
\* leaves the file unchanged, whatever the arguments and the save flag are.
C2_ExistingFileLoaded ==
    (Finished /\ last.before.state = "complete")
        => /\ last.outcome = "returned"
           /\ last.ret = load_fits_data(last.before)
           /\ last.computes = 0
           /\ last.after = last.before
           /\ last.warnings = <<>>

\* C2 witness: a call with save enabled found a file whose content is not
\* what its compute function would have produced, and returned.
C2_Witness ==
    /\ Finished
    /\ last.before.state = "complete"
    /\ last.save
    /\ last.outcome = "returned"
    /\ last.before # HDUList(function(last.args))

\* C3: open_or_compute with the target absent: the compute function is
\* invoked exactly once and its result is returned; afterwards the target
\* holds that result if save is true and the write succeeded, and no file is
\* created if save is false.
C3_AbsentComputesOnce ==
    (Finished /\ FileNotFound(last.before))
        => /\ last.computes = 1
           /\ last.outcome = "returned"
           /\ last.ret = function(last.args)
           /\ (last.save /\ last.write = "written"
                  => last.after = HDUList(function(last.args)))
           /\ (~last.save => FileNotFound(last.after))

\* C4: for any sequence of calls on one target (single caller, save enabled,
\* writes succeed) only the first call invokes the compute function, and
\* every later call returns the cube and the timestamps the first call
\* returned.
C4_RoundTrip ==
    (calls >= 2 /\ allSaved)
        => /\ last.computes = 0
           /\ last.ret.cube = first.ret.cube
           /\ last.ret.timestamps = first.ret.timestamps

\* Two calls have finished and nothing is running.
BothDone == calls = 2 /\ \A p \in Callers : pc[p] = "idle"

\* Of the two finished calls, both found the target absent and computed, one
\* wrote the file completely and the other's save was refused.
Raced(w, r) ==
    /\ w.computes = 1
    /\ r.computes = 1
    /\ w.write = "written"
    /\ r.write = "refused"

\* What the race leaves: no file, although both calls returned what they
\* computed, the refused one after the one warning of its failed save.
CacheLost(w, r) ==
    /\ FileNotFound(file)
    /\ w.outcome = "returned" /\ w.ret = function(w.args)
    /\ r.outcome = "returned" /\ r.ret = function(r.args)
    /\ w.warnings = <<>>
    /\ Len(r.warnings) = 1
    /\ r.warnings[1].class = "OSError"

\* C19: two concurrent open_or_compute calls on an absent target race
\* between the existence check and the write: whenever both observed the
\* file as absent and computed, and the save of one was refused because the
\* other had written the file, the failure cleanup of the refused one has
\* removed that file: no cache file is left although both calls returned
\* their result. (That such an interleaving is reachable is C19_Witness.)
C19_RaceLosesCache ==
    BothDone =>
        /\ Raced(first, last) => CacheLost(first, last)
        /\ Raced(last, first) => CacheLost(last, first)

\* C19 witness: the first call to finish had written the file completely,
\* the second one's save was refused, both had computed and returned, and
\* no file is left.
C19_Witness ==
    /\ BothDone
    /\ Raced(first, last)
    /\ first.after = HDUList(function(first.args))
    /\ first.outcome = "returned"
    /\ last.outcome = "returned"
    /\ FileNotFound(file)

(***************************************************************************)
(* Registration: images and the affine warp                                 *)
(***************************************************************************)

\* np.nan: the invalid pixel, and the fields of the invalid transform.
NaN == -1000

\* An image is a row of pixels; the cubes are built from these frames: a
\* plain one, one whose valid pixels all have the same value, one with an
\* invalid pixel.
Frames == {<<0, 1, 2>>, <<1, 1, 1>>, <<NaN, 0, 2>>}

Cubes == UNION {[1..n -> Frames] : n \in 0..MaxFrames}

Valid(img) == {img[x] : x \in {y \in 1..Len(img) : img[y] # NaN}}

\* np.nanmin / np.nanmax: the extremum of the valid pixels, NaN (and a
\* RuntimeWarning) when there is none.
nanmin(img) ==
    IF Valid(img) = {} THEN NaN
    ELSE CHOOSE v \in Valid(img) : \A w \in Valid(img) : v <= w

nanmax(img) ==
    IF Valid(img) = {} THEN NaN
    ELSE CHOOSE v \in Valid(img) : \A w \in Valid(img) : v >= w

\* (img - img_min) / (img_max - img_min), pixel by pixel. A rescaled pixel is
\* kept as the fraction <<numerator, denominator>>; 0/0, and anything
\* computed from NaN, is NaN, written <<0, 0>>.
NaNFraction == <<0, 0>>

Rescale(img, lo, hi) ==
    [x \in 1..Len(img) |->
        IF img[x] = NaN \/ lo = NaN \/ hi = NaN \/ hi - lo = 0
        THEN NaNFraction
        ELSE <<img[x] - lo, hi - lo>>]

\* img_transformed * (img_max - img_min) + img_min, pixel by pixel.
Unscale(img, lo, hi) ==
    [x \in 1..Len(img) |->
        IF img[x] = NaNFraction \/ lo = NaN \/ hi = NaN
        THEN NaN
        ELSE (img[x][1] * (hi - lo)) \div img[x][2] + lo]

\* The 2x3 matrix of a translation by tx pixels along the row.
Translation(tx) == <<<<1, 0, tx>>, <<0, 1, 0>>>>

\* cv2.warpAffine(img, mat, img.T.shape, borderValue=np.nan) for a matrix of
\* unit scale and no rotation: the pixel at x moves to x + tx, and the
\* pixels that come from outside the image are the border value.
warpAffine(img, mat, borderValue) ==
    [x \in 1..Len(img) |->
        IF x - mat[1][3] \in 1..Len(img) THEN img[x - mat[1][3]]
        ELSE borderValue]

affine_transform(img, mat) ==
    LET img_min == nanmin(img)
        img_max == nanmax(img)
    IN  Unscale(warpAffine(Rescale(img, img_min, img_max), mat, NaNFraction),
                img_min, img_max)

\* The RuntimeWarnings numpy emits inside affine_transform: an all-NaN image
\* (nanmin, nanmax), a division 0/0.
affine_warnings(img) ==
    IF Valid(img) = {}
    THEN <<[kind |-> "RuntimeWarning", text |-> "All-NaN slice encountered"]>>
    ELSE IF nanmax(img) = nanmin(img)
    THEN <<[kind |-> "RuntimeWarning", text |-> "invalid value encountered"]>>
    ELSE <<>>

(***************************************************************************)
(* Registration: the external solver                                        *)
(***************************************************************************)

\* A transform as skimage's SimilarityTransform shows it.
Transform(scale, rotation, translation) ==
    [scale |-> scale, rotation |-> rotation, translation |-> translation]

\* What astroalign.find_transform can return: a translation by tx pixels.
Shifts == {-1, 0, 1}
Solutions == {Transform(1, 0, tx) : tx \in Shifts}

\* p.params[:-1]
params(p) == Translation(p.translation)

\* How one frame's estimation can end: a transform, or an error raised by
\* the solver. In the pointing analysis the source extraction of the frame
\* runs in the same try block and can raise too.
Ok(p) == [error |-> "none", p |-> p]
Err(e) == [error |-> e, p |-> Transform(0, 0, 0)]
SolverOutcomes == {Ok(p) : p \in Solutions} \cup {Err("solver")}
PointingOutcomes == SolverOutcomes \cup {Err("extraction")}

\* warnings.warn('Image {}: {}'.format(i, e))
ImageWarning(idx, e) == [kind |-> "UserWarning", frame |-> idx, text |-> e]

\* register_stars, except Exception: the identity matrix replaces the
\* estimated one.
IdentityMatrix == <<<<1, 0, 0>>, <<0, 1, 0>>>>

\* The valid identity transform in place of the sentinel.
InvalidTransformAsIdentity == Transform(1, 0, 0)

\* pointing analysis, except Exception:
\* skt.SimilarityTransform(scale=np.nan, rotation=np.nan, translation=np.nan)
InvalidTransform == Transform(NaN, NaN, NaN)

\* An except block that lets the error leave the loop.
AfterFrameErrorAbort == "raised"

\* Where control goes after the except block of a frame: on with the loop.
AfterFrameError == "loop"

(***************************************************************************)
(* register_stars(images, timestamps, ref_img=None)                         *)
(***************************************************************************)
N == Len(images)

Pending == [error |-> "pending", p |-> Transform(0, 0, 0)]

\* The reference image the caller supplies, when one is supplied.
ref_img == <<2, 1, 0>>

\* astroalign._find_sources(img): the sources of an image, kept as the
\* image they were found in.
_find_sources(img) == [sources_of |-> img]

\* A loop that never estimates frame 0.
SkipFrameZero(idx, first_im_is_ref) == idx = 0

\* if i == 0 and first_im_is_ref: continue
SkipFrame(idx, first_im_is_ref) == idx = 0 /\ first_im_is_ref
Skipped == [error |-> "reference", p |-> Transform(0, 0, 0)]

\* Lines 189-196: the reference is chosen and its sources extracted. With no
\* reference supplied images[0] is taken (IndexError on an empty cube);
\* astroalign._find_sources runs outside any try block.
RegisterStart ==
    /\ mode = "register_stars"
    /\ apc = "start"
    /\ \E found \in BOOLEAN :
          IF (~refGiven /\ N = 0) \/ ~found
          THEN /\ apc' = "raised"
               /\ UNCHANGED ref_sources
          ELSE /\ apc' = "loop"
               /\ ref_sources' = _find_sources(IF refGiven THEN ref_img
                                               ELSE images[1])
    /\ UNCHANGED <<mode, input, images, refGiven, i, transforms, awarnings,
                   solved, attempts, result, notAlign>>

\* if i == 0 and first_im_is_ref: continue
RegisterSkip ==
    /\ mode = "register_stars"
    /\ apc = "loop"
    /\ i < N
    /\ SkipFrame(i, ~refGiven)
    /\ solved' = [solved EXCEPT ![i + 1] = Skipped]
    /\ i' = i + 1
    /\ UNCHANGED <<mode, apc, input, images, refGiven, transforms, awarnings,
                   ref_sources, attempts, result, notAlign>>

\* One pass of the loop body: the estimation, the except block, the warp.
RegisterFrame ==
    /\ mode = "register_stars"
    /\ apc = "loop"
    /\ i < N
    /\ ~SkipFrame(i, ~refGiven)
    /\ \E o \in SolverOutcomes :
          LET img == images[i + 1]
              mat == IF o.error = "none" THEN params(o.p) ELSE IdentityMatrix
          IN  /\ solved' = [solved EXCEPT ![i + 1] = o]
              /\ attempts' = [attempts EXCEPT ![i + 1] = Append(@, ref_sources)]
              /\ IF o.error = "none"
                 THEN /\ awarnings' = awarnings \o affine_warnings(img)
                      /\ images' = [images EXCEPT ![i + 1] = affine_transform(img, mat)]
                      /\ apc' = "loop"
                      /\ i' = i + 1
                 ELSE IF AfterFrameError = "loop"
                 THEN /\ awarnings' = Append(awarnings, ImageWarning(i, o.error))
                                         \o affine_warnings(img)
                      /\ images' = [images EXCEPT ![i + 1] = affine_transform(img, mat)]
                      /\ apc' = "loop"
                      /\ i' = i + 1
                 ELSE /\ apc' = "raised"
                      /\ UNCHANGED <<awarnings, images, i>>
    /\ UNCHANGED <<mode, input, refGiven, transforms, ref_sources, result,
                   notAlign>>

\* return images, timestamps
RegisterReturn ==
    /\ mode = "register_stars"
    /\ apc = "loop"
    /\ i = N
    /\ result' = [images |-> images, timestamps |-> [k \in 1..N |-> k]]
    /\ apc' = "done"
    /\ UNCHANGED <<mode, input, images, refGiven, i, transforms, awarnings,
                   solved, ref_sources, attempts, notAlign>>

(***************************************************************************)
(* pointing_analysis.main, the alignment loop                               *)
(***************************************************************************)

\* ref_img = images[0]; ref_sources = sep_sources_coordinates(ref_img, ...)
PointingStart ==
    /\ mode = "pointing"
    /\ apc = "start"
    /\ \E found \in BOOLEAN :
          IF N = 0 \/ ~found
          THEN /\ apc' = "raised"
               /\ UNCHANGED ref_sources
          ELSE /\ apc' = "loop"
               /\ ref_sources' = _find_sources(images[1])
    /\ UNCHANGED <<mode, input, images, refGiven, i, transforms, awarnings,
                   solved, attempts, result, notAlign>>

\* One pass of the loop body: extraction and estimation in one try block,
\* the except block, transforms.append(p).
PointingFrame ==
    /\ mode = "pointing"
    /\ apc = "loop"
    /\ i < N
    /\ \E o \in PointingOutcomes :
          /\ solved' = [solved EXCEPT ![i + 1] = o]
          /\ attempts' = [attempts EXCEPT ![i + 1] =
                            IF o.error = "extraction" THEN @
                            ELSE Append(@, ref_sources)]
          /\ IF o.error = "none"
             THEN /\ transforms' = Append(transforms, o.p)
                  /\ awarnings' = awarnings
                  /\ apc' = "loop"
                  /\ i' = i + 1
             ELSE IF AfterFrameError = "loop"
             THEN /\ transforms' = Append(transforms, InvalidTransform)
                  /\ awarnings' = Append(awarnings, ImageWarning(i, o.error))
                  /\ apc' = "loop"
                  /\ i' = i + 1
             ELSE /\ apc' = "raised"
                  /\ UNCHANGED <<transforms, awarnings, i>>
    /\ UNCHANGED <<mode, input, images, refGiven, ref_sources, result,
                   notAlign>>

\* The loop is over: the transform list goes on to the plots.
PointingDone ==
    /\ mode = "pointing"
    /\ apc = "loop"
    /\ i = N
    /\ result' = [transforms |-> transforms]
    /\ apc' = "done"
    /\ UNCHANGED <<mode, input, images, refGiven, i, transforms, awarnings,
                   solved, ref_sources, attempts, notAlign>>

IdleCache ==
    /\ file = Absent
    /\ pc = [p \in Callers |-> "off"]
    /\ cur = [p \in Callers |-> NoCall]
    /\ calls = 0
    /\ first = NoCall
    /\ last = NoCall
    /\ allSaved = TRUE

InitAlign ==
    /\ IdleCache
    /\ IdleMatch
    /\ IdleMaster
    /\ IdleReduce
    /\ IdleConsole
    /\ mode \in {"register_stars", "pointing"}
    /\ apc = "start"
    /\ input \in Cubes
    /\ images = input
    /\ refGiven \in (IF mode = "register_stars" THEN BOOLEAN ELSE {FALSE})
    /\ i = 0
    /\ transforms = <<>>
    /\ awarnings = <<>>
    /\ solved = [k \in 1..Len(input) |-> Pending]
    /\ ref_sources = NoData
    /\ attempts = [k \in 1..Len(input) |-> <<>>]
    /\ result = NoData

NextAlign ==
    \/ RegisterStart
    \/ RegisterSkip
    \/ RegisterFrame
    \/ RegisterReturn
    \/ PointingStart
    \/ PointingFrame
    \/ PointingDone

\* One run of register_stars or of the pointing-analysis alignment loop.
SpecAlign == InitAlign /\ [][NextAlign]_vars

(***************************************************************************)
(* Registration: claims                                                     *)
(***************************************************************************)
FrameFailed(k) == solved[k].error \in {"solver", "extraction"}
FrameEstimated(k) == solved[k].error = "none"

IsImageWarning(w) == w.kind = "UserWarning"

\* The frame indices carried by the 'Image i: ...' warnings, in order.
WarnedFrames ==
    LET ws == SelectSeq(awarnings, IsImageWarning)
    IN  [k \in 1..Len(ws) |-> ws[k].frame]

\* The indices of the failed frames among the first n, ascending.
FailedUpTo(n) ==
    LET idx == [k \in 1..n |-> k - 1]
    IN  SelectSeq(idx, LAMBDA j : FrameFailed(j + 1))

ResultLength ==
    IF mode = "pointing" THEN Len(result.transforms) ELSE Len(result.images)

\* C5: in register_stars and in the pointing-analysis loop an error raised
\* by the solver on any subset of frames never aborts the batch: every
\* remaining frame is still processed, one warning carrying the frame index
\* is emitted per failed frame, and the result has one entry per input frame.
C5_BatchNeverAborts ==
    /\ apc = "raised" => \A k \in 1..Len(input) : solved[k] = Pending
    /\ apc \in {"loop", "done"} => WarnedFrames = FailedUpTo(i)
    /\ apc = "done" =>
          /\ \A k \in 1..Len(input) : solved[k] # Pending
          /\ ResultLength = Len(input)

\* C5 witness: a finished batch in which a frame failed and a later frame
\* was estimated.
C5_Witness ==
    /\ apc = "done"
    /\ \E j, k \in 1..Len(input) : j < k /\ FrameFailed(j) /\ FrameEstimated(k)

IsNaNTransform(p) == p.scale = NaN /\ p.rotation = NaN /\ p.translation = NaN

\* C6: in the pointing-analysis loop the transform list has one Transform
\* per frame, in frame order; the Transform of frame k is the invalid
\* sentinel (scale, rotation, translation all NaN) exactly when extraction or
\* the solver raised for frame k, and is the estimated one otherwise,
\* whatever happened to the other frames.
C6_TransformPerFrame ==
    (mode = "pointing" /\ apc \in {"loop", "done"}) =>
        /\ Len(transforms) = i
        /\ apc = "done" => Len(transforms) = Len(input)
        /\ \A k \in 1..Len(transforms) :
              /\ IsNaNTransform(transforms[k]) <=> FrameFailed(k)
              /\ FrameEstimated(k) => transforms[k] = solved[k].p

\* C6 witness: a finished loop over three frames where only the middle one
\* failed and its neighbours carry their own, different, transforms.
C6_Witness ==
    /\ mode = "pointing"
    /\ apc = "done"
    /\ Len(transforms) = 3
    /\ FrameFailed(2)
    /\ FrameEstimated(1) /\ FrameEstimated(3)
    /\ transforms[1] # transforms[3]

\* C7: after register_stars returns, every frame whose estimation failed is
\* distinguishable in the returned result from the frames that were aligned:
\* the result carries the pixel data only, so a failed frame's entry differs
\* from every aligned frame's entry.
C7_FailedDistinguishable ==
    (mode = "register_stars" /\ apc = "done") =>
        \A j, k \in 1..Len(input) :
            (FrameFailed(j) /\ FrameEstimated(k) /\ input[j] = input[k])
                => result.images[j] # result.images[k]

\* The frame was estimated and the solver returned the identity.
IdentityEstimated(k) == FrameEstimated(k) /\ solved[k].p = Transform(1, 0, 0)

\* C15: warping a frame with the identity transform returns the frame's own
\* pixel values, also for a frame whose valid pixels all have the same
\* value: every frame of register_stars whose estimated transform is the
\* identity is, in the output, the input frame (valid pixels keep their
\* value, invalid pixels stay invalid).
C15_IdentityWarpRoundTrip ==
    (mode = "register_stars" /\ apc = "done") =>
        \A k \in 1..Len(input) :
            IdentityEstimated(k) => result.images[k] = input[k]

\* The frame is the reference taken from the cube, which is not estimated.
IsReference(k) == k = 1 /\ ~refGiven

\* C16: register_stars calls the solver at most once per frame at any time,
\* in frame order; at the end every frame but a reference taken from the
\* cube has had exactly one attempt and is either aligned or failed; with no
\* reference supplied frame 0 has had none and is in the output what it was
\* in the input; with a reference supplied all N frames have had one.
C16_OneAttemptPerFrame ==
    (mode = "register_stars" /\ apc \in {"loop", "done"}) =>
        /\ \A k \in 1..Len(input) :
              /\ Len(attempts[k]) <= 1
              /\ k > i => (Len(attempts[k]) = 0 /\ solved[k] = Pending)
              /\ k <= i =>
                    IF IsReference(k)
                    THEN /\ Len(attempts[k]) = 0
                         /\ solved[k] = Skipped
                         /\ images[k] = input[k]
                    ELSE /\ Len(attempts[k]) = 1
                         /\ FrameEstimated(k) # FrameFailed(k)
        /\ apc = "done" =>
              /\ i = Len(input)
              /\ refGiven => \A k \in 1..Len(input) : Len(attempts[k]) = 1
              /\ ~refGiven => result.images[1] = input[1]

\* C16 witness: a finished run with a reference supplied, three frames, the
\* first of them failed and the others estimated.
C16_Witness ==
    /\ mode = "register_stars"
    /\ apc = "done"
    /\ refGiven
    /\ Len(input) = 3
    /\ FrameFailed(1)
    /\ FrameEstimated(2) /\ FrameEstimated(3)

\* C17: register_stars does not modify the cube it was given: at every point
\* of the call and after it the caller's frames (the array bound to the
\* parameter images) hold the values they had before the call, and every
\* call of the solver was given the same reference sources.
C17_InputCubeUntouched ==
    mode = "register_stars" =>
        /\ images = input
        /\ \A j, k \in 1..Len(input) :
              (attempts[j] # <<>> /\ attempts[k] # <<>>)
                  => attempts[j][1] = attempts[k][1]

\* C18: register_stars, frame whose estimation failed: the frame's pixel
\* data in the output cube is the input frame's pixel data, for every such
\* frame.
C18_FailedFrameUntouched ==
    (mode = "register_stars" /\ apc = "done") =>
        \A k \in 1..Len(input) :
            FrameFailed(k) => result.images[k] = input[k]

(***************************************************************************)
(* Source matcher: find_closest_sources(catalog, coordinates)               *)
(***************************************************************************)

\* The coordinates the catalogs and the queries are drawn from. <<1, 0>> is
\* equidistant from <<0, 0>> and <<2, 0>>.
Points == {<<0, 0>>, <<2, 0>>, <<1, 0>>, <<1, 2>>}

\* A catalog row: a centroid and the other fields of the source, which tell
\* two rows with the same centroid apart. Rows are in ascending flux order.
CatalogOf(pts) ==
    [k \in 1..Len(pts) |-> [x |-> pts[k][1], y |-> pts[k][2], flux |-> k]]

Catalogs == {CatalogOf(pts) : pts \in UNION {[1..m -> Points] : m \in 0..MaxCatalog}}
Queries == UNION {[1..n -> Points] : n \in 0..MaxQueries}

\* np.sqrt(np.sum((cat - coord)**2)): the square root is kept symbolic, as
\* the number under the root.
Sqrt(v) == [sqrt |-> v]

Distance(row, q) ==
    Sqrt((row.x - q[1]) * (row.x - q[1]) + (row.y - q[2]) * (row.y - q[2]))

\* dist.min(axis=0)[n]
ColumnMin(d, n) ==
    LET col == {d[m][n].sqrt : m \in 1..Len(d)}
    IN  Sqrt(CHOOSE v \in col : \A w \in col : v <= w)

\* A strict one-to-one match: only the first row at the minimum.
IsClosestFirstOnly(d, m, n) ==
    /\ d[m][n] = ColumnMin(d, n)
    /\ \A o \in 1..(m - 1) : d[o][n] # ColumnMin(d, n)

\* dist == dist.min(axis=0), entry (m, n)
IsClosest(d, m, n) == d[m][n] = ColumnMin(d, n)

\* np.where(mask) of an (m, n) mask: the (row, column) pairs of the true
\* entries, in row-major order.
Where(d, rows, cols) ==
    LET flat == [f \in 1..(rows * cols) |->
                    <<((f - 1) \div cols) + 1, ((f - 1) % cols) + 1>>]
    IN  SelectSeq(flat, LAMBDA rc : IsClosest(d, rc[1], rc[2]))

\* np.argsort(keys) with the default, unstable, sort: every permutation of
\* the positions that puts the keys in ascending order.
RECURSIVE ArgsortFrom(_, _)
ArgsortFrom(keys, left) ==
    IF left = {} THEN {<<>>}
    ELSE LET least == {c \in left : \A e \in left : keys[c] <= keys[e]}
         IN  UNION {{<<c>> \o rest : rest \in ArgsortFrom(keys, left \ {c})}
                    : c \in least}

argsort(keys) == ArgsortFrom(keys, 1..Len(keys))

\* Lines 270-275: the distance matrix, dist[m][n] between row m and query n.
FindDistances ==
    /\ mpc = "start"
    /\ dist' = [m \in 1..Len(catalog) |->
                  [n \in 1..Len(coordinates) |->
                      Distance(catalog[m], coordinates[n])]]
    /\ mpc' = "where"
    /\ UNCHANGED <<catalog, coordinates, i_cat, i_input, matched, notMatch>>

\* Line 278: i_cat, i_input = np.where(dist == dist.min(axis=0)). The
\* minimum over an empty catalog raises ValueError.
FindWhere ==
    /\ mpc = "where"
    /\ IF Len(catalog) = 0
       THEN /\ mpc' = "raised"
            /\ UNCHANGED <<i_cat, i_input>>
       ELSE LET w == Where(dist, Len(catalog), Len(coordinates))
            IN  /\ i_cat' = [k \in 1..Len(w) |-> w[k][1]]
                /\ i_input' = [k \in 1..Len(w) |-> w[k][2]]
                /\ mpc' = "sort"
    /\ UNCHANGED <<catalog, coordinates, dist, matched, notMatch>>

\* Lines 281-287: the matches are put in query order and looked up.
FindSortReturn ==
    /\ mpc = "sort"
    /\ \E sort \in argsort(i_input) :
          LET cat_sorted == [k \in 1..Len(sort) |-> i_cat[sort[k]]]
              input_sorted == [k \in 1..Len(sort) |-> i_input[sort[k]]]
          IN  /\ i_cat' = cat_sorted
              /\ i_input' = input_sorted
              /\ matched' =
                    [filtered_catalog |->
                        [k \in 1..Len(sort) |-> catalog[cat_sorted[k]]],
                     dist |->
                        [k \in 1..Len(sort) |->
                            dist[cat_sorted[k]][input_sorted[k]]]]
    /\ mpc' = "done"
    /\ UNCHANGED <<catalog, coordinates, dist, notMatch>>

InitMatch ==
    /\ IdleCache
    /\ IdleAlign
    /\ IdleMaster
    /\ IdleReduce
    /\ IdleConsole
    /\ catalog \in Catalogs
    /\ coordinates \in Queries
    /\ mpc = "start"
    /\ dist = <<>>
    /\ i_cat = <<>>
    /\ i_input = <<>>
    /\ matched = NoData

NextMatch ==
    \/ FindDistances
    \/ FindWhere
    \/ FindSortReturn

\* One call of find_closest_sources.
SpecMatch == InitMatch /\ [][NextMatch]_vars

(***************************************************************************)
(* Source matcher: claims                                                   *)
(***************************************************************************)

\* The squared Euclidean distance between catalog row m and query k.
D2(m, k) ==
    (catalog[m].x - coordinates[k][1]) * (catalog[m].x - coordinates[k][1])
    + (catalog[m].y - coordinates[k][2]) * (catalog[m].y - coordinates[k][2])

\* The catalog rows at minimum distance from query k.
Nearest(k) ==
    {m \in 1..Len(catalog) : \A o \in 1..Len(catalog) : D2(m, k) <= D2(o, k)}

\* The number of pairs due to the queries before query k.
RECURSIVE Before(_)
Before(k) == IF k <= 1 THEN 0 ELSE Before(k - 1) + Cardinality(Nearest(k - 1))

Pair(k) == <<matched.filtered_catalog[k], matched.dist[k]>>

HasTie == \E k \in 1..Len(coordinates) : Cardinality(Nearest(k)) > 1

Directory == "darks"

Names == {[stem |-> "a", ext |-> "fits"], [stem |-> "B", ext |-> "FIT"],
          [stem |-> "c", ext |-> "fit"],
          [stem |-> "", ext |-> "fits"], [stem |-> "notes", ext |-> "txt"]}

Listings == {[exists |-> FALSE, names |-> {}]}
                \cup {[exists |-> TRUE, names |-> ns] : ns \in SUBSET Names}

\* re.compile('(?i).+\.fits?$').match(f): something, then '.fit' or '.fits'
\* in any case, at the end of the name.
RegMatch(name) == name.stem # "" /\ name.ext \in {"fits", "FITS", "fit", "FIT"}

\* The order of sorted() on the paths: upper case comes before lower case.
Rank(name) ==
    CASE name.stem = "" -> 0
      [] name.stem = "B" -> 1
      [] name.stem = "a" -> 2
      [] name.stem = "c" -> 3
      [] OTHER -> 4

RECURSIVE Sorted(_)
Sorted(names) ==
    IF names = {} THEN <<>>
    ELSE LET least == CHOOSE n \in names : \A o \in names : Rank(n) <= Rank(o)
         IN  <<least>> \o Sorted(names \ {least})

\* list_fits(directory): [] for None and for a missing directory, else the
\* sorted entries that match the pattern.
list_fits_of(l) ==
    IF ~l.exists THEN <<>>
    ELSE Sorted({n \in l.names : RegMatch(n)})

\* list_fits on the directory of create_master.
list_fits(directory) == list_fits_of(listing)

\* The primary HDU of a FITS file: its data and its EXPTIME header. The
\* frames of a and c differ, and are the same once divided by their EXPTIME.
hdu(name) ==
    CASE name.stem = "a" -> [data |-> <<2, 4>>, EXPTIME |-> 2]
      [] name.stem = "c" -> [data |-> <<3, 6>>, EXPTIME |-> 3]
      [] OTHER -> [data |-> <<1, 6>>, EXPTIME |-> 1]

RECURSIVE GCD(_, _)
GCD(a, b) == IF b = 0 THEN a ELSE GCD(b, a % b)

\* A floating-point value, kept as an exact fraction in lowest terms.
Frac(n, d) == <<n \div GCD(n, d), d \div GCD(n, d)>>
FracAdd(a, b) == Frac(a[1] * b[2] + b[1] * a[2], a[2] * b[2])

\* load_fits_data(path): data.astype(float32) / header['EXPTIME']
load_normalized(name) ==
    [x \in 1..Len(hdu(name).data) |-> Frac(hdu(name).data[x], hdu(name).EXPTIME)]

(***************************************************************************)
(* create_master(filenames, default=None)                                   *)
(***************************************************************************)

\* The values of the filenames argument: None, a directory, a list of paths.
None == [kind |-> "None"]
Str(path) == [kind |-> "str", path |-> path]
List(items) == [kind |-> "list", items |-> items]

FitsNames == {n \in Names : RegMatch(n)}

PassedValues ==
    {None, Str(Directory), List(<<>>)}
        \cup {List(<<n>>) : n \in FitsNames}
        \cup {List(<<n, o>>) : n \in FitsNames, o \in FitsNames}

\* The default argument: None, or a value.
NoDefault == [given |-> FALSE, value |-> 0]
Default(v) == [given |-> TRUE, value |-> v]
Defaults == {NoDefault, Default(0), Default(1), Default(5)}

\* An accumulator that starts from the first frame instead of from zero.
zeros_like_copy(img) == img

\* np.zeros_like(img)
zeros_like(img) == [x \in 1..Len(img) |-> Frac(0, 1)]

\* A test that takes only None for an empty input.
NotFilenamesNoneOnly(f) == f.kind = "None"

\* not filenames
NotFilenames(f) == f.kind = "None" \/ (f.kind = "list" /\ f.items = <<>>)

\* Lines 114-116: a str is a directory, listed into filenames.
CreateMasterList ==
    /\ cpc = "start"
    /\ filenames' = IF passed.kind = "str" THEN List(list_fits(passed.path))
                    ELSE passed
    /\ cpc' = "check"
    /\ UNCHANGED <<listing, passed, default, master, nadded, cwarnings, raised,
                   notMaster>>

\* Lines 117-125: the empty input, then the accumulator. The message of the
\* warning is built from the variable filenames and from default.
CreateMasterCheck ==
    /\ cpc = "check"
    /\ IF NotFilenames(filenames)
       THEN IF default.given
            THEN /\ cwarnings' = Append(cwarnings,
                        [empty |-> filenames, value |-> default.value])
                 /\ master' = [kind |-> "default", value |-> default.value]
                 /\ cpc' = "done"
                 /\ raised' = raised
            ELSE /\ raised' = "ValueError"
                 /\ cpc' = "raised"
                 /\ UNCHANGED <<cwarnings, master>>
       ELSE IF filenames.items = <<>>
            THEN \* filenames[0] on an empty list
                 /\ raised' = "IndexError"
                 /\ cpc' = "raised"
                 /\ UNCHANGED <<cwarnings, master>>
            ELSE /\ master' = [kind |-> "frame",
                               data |-> zeros_like(load_normalized(filenames.items[1]))]
                 /\ cpc' = "loop"
                 /\ UNCHANGED <<cwarnings, raised>>
    /\ UNCHANGED <<listing, passed, default, filenames, nadded, notMaster>>

\* Lines 126-127: master += load_fits_data(filename)
CreateMasterAdd ==
    /\ cpc = "loop"
    /\ nadded < Len(filenames.items)
    /\ master' = [kind |-> "frame",
                  data |-> [x \in 1..Len(master.data) |->
                              FracAdd(master.data[x],
                                      load_normalized(filenames.items[nadded + 1])[x])]]
    /\ nadded' = nadded + 1
    /\ UNCHANGED <<listing, passed, default, filenames, cpc, cwarnings, raised,
                   notMaster>>

\* Lines 128-129: master = master / len(filenames); return master
CreateMasterReturn ==
    /\ cpc = "loop"
    /\ nadded = Len(filenames.items)
    /\ master' = [kind |-> "frame",
                  data |-> [x \in 1..Len(master.data) |->
                              Frac(master.data[x][1],
                                   master.data[x][2] * Len(filenames.items))]]
    /\ cpc' = "done"
    /\ UNCHANGED <<listing, passed, default, filenames, nadded, cwarnings, raised,
                   notMaster>>

InitMaster ==
    /\ IdleCache
    /\ IdleAlign
    /\ IdleMatch
    /\ IdleReduce
    /\ IdleConsole
    /\ listing \in Listings
    /\ passed \in PassedValues
    /\ default \in Defaults
    /\ filenames = passed
    /\ cpc = "start"
    /\ master = NoData
    /\ nadded = 0
    /\ cwarnings = <<>>
    /\ raised = "none"

NextMaster ==
    \/ CreateMasterList
    \/ CreateMasterCheck
    \/ CreateMasterAdd
    \/ CreateMasterReturn

\* One call of create_master.
SpecMaster == InitMaster /\ [][NextMaster]_vars

(***************************************************************************)
(* Master frame builder: claims                                             *)
(***************************************************************************)

\* The input set is empty: None, an empty list, or a directory that is
\* missing, empty or without any FITS file.
EmptyInput ==
    \/ passed.kind = "None"
    \/ passed.kind = "list" /\ Len(passed.items) = 0
    \/ passed.kind = "str" /\ ~listing.exists
    \/ passed.kind = "str" /\ \A n \in listing.names : ~RegMatch(n)

Ended == cpc \in {"done", "raised"}

\* C9: create_master on an empty input set with no default fails with the
\* empty-input error (ValueError); it emits no warning and returns no frame.
C9_EmptyNoDefaultFails ==
    (Ended /\ EmptyInput /\ ~default.given) =>
        /\ cpc = "raised"
        /\ raised = "ValueError"
        /\ cwarnings = <<>>
        /\ master = NoData

\* C9 witness: the call ended on a directory that exists and holds entries,
\* none of them a FITS file.
C9_Witness ==
    /\ Ended
    /\ ~default.given
    /\ passed.kind = "str"
    /\ listing.exists
    /\ listing.names # {}
    /\ EmptyInput

\* C10: create_master on an empty input set with a default supplied (any
\* value, 0 included) returns exactly that default, does not fail, and emits
\* exactly one warning that identifies the empty source (the directory or
\* the list that was passed) and the substituted value.
C10_EmptyWithDefault ==
    (Ended /\ EmptyInput /\ default.given) =>
        /\ cpc = "done"
        /\ master = [kind |-> "default", value |-> default.value]
        /\ Len(cwarnings) = 1
        /\ cwarnings[1].empty = passed
        /\ cwarnings[1].value = default.value

\* The files of a non-empty input set, and their number N.
InputFiles ==
    IF passed.kind = "list" THEN passed.items
    ELSE Sorted({n \in listing.names : RegMatch(n)})

\* A common multiple of the exposure times of the files fs.
RECURSIVE ExptimeProduct(_)
ExptimeProduct(fs) ==
    IF fs = <<>> THEN 1 ELSE hdu(Head(fs)).EXPTIME * ExptimeProduct(Tail(fs))

\* The sum over the files fs of pixel x divided by the file's own exposure
\* time, times the common multiple m.
RECURSIVE ScaledSum(_, _, _)
ScaledSum(fs, x, m) ==
    IF fs = <<>> THEN 0
    ELSE (hdu(Head(fs)).data[x] * m) \div hdu(Head(fs)).EXPTIME
            + ScaledSum(Tail(fs), x, m)

\* Every file of the input set holds the same frame once normalized.
IdenticalNormalized ==
    \A k \in 1..Len(InputFiles) :
        \A x \in 1..Len(hdu(InputFiles[k]).data) :
            hdu(InputFiles[k]).data[x] * hdu(InputFiles[1]).EXPTIME
                = hdu(InputFiles[1]).data[x] * hdu(InputFiles[k]).EXPTIME

\* C11: create_master on a non-empty set of N frames returns the pixel-wise
\* arithmetic mean of the N frames, each divided by its own exposure time
\* (master * N = the sum of frame / EXPTIME over the files, every file
\* counted once); N identical normalized frames yield that frame.
C11_MasterIsMean ==
    (Ended /\ ~EmptyInput) =>
        /\ cpc = "done"
        /\ cwarnings = <<>>
        /\ master.kind = "frame"
        /\ Len(master.data) = Len(hdu(InputFiles[1]).data)
        /\ \A x \in 1..Len(master.data) :
              /\ master.data[x][2] > 0
              /\ master.data[x][1] * Len(InputFiles) * ExptimeProduct(InputFiles)
                    = master.data[x][2]
                        * ScaledSum(InputFiles, x, ExptimeProduct(InputFiles))
        /\ IdenticalNormalized =>
              \A x \in 1..Len(master.data) :
                  master.data[x][1] * hdu(InputFiles[1]).EXPTIME
                    = master.data[x][2] * hdu(InputFiles[1]).data[x]

\* C11 witness: the master of a directory of three FITS files with three
\* exposure times, two of them identical once normalized, the third not.
C11_Witness ==
    /\ cpc = "done"
    /\ passed.kind = "str"
    /\ Len(InputFiles) = 3
    /\ ~IdenticalNormalized
    /\ master.kind = "frame"

(***************************************************************************)
(* Calibration reducer: array arithmetic                                    *)
(***************************************************************************)

\* A floating-point number is a fraction <<n, d>> in lowest terms with
\* d > 0, or one of inf <<1, 0>>, -inf <<-1, 0>>, nan <<0, 0>>.
Abs(v) == IF v < 0 THEN -v ELSE v
Sign(v) == IF v > 0 THEN 1 ELSE IF v < 0 THEN -1 ELSE 0

Q(n, d) ==
    IF d = 0 THEN <<Sign(n), 0>>
    ELSE <<(Sign(d) * n) \div GCD(Abs(n), Abs(d)), Abs(d) \div GCD(Abs(n), Abs(d))>>

QAdd(a, b) ==
    IF a[2] = 0 /\ b[2] = 0 THEN (IF a[1] = b[1] THEN a ELSE <<0, 0>>)
    ELSE IF a[2] = 0 THEN a
    ELSE IF b[2] = 0 THEN b
    ELSE Q(a[1] * b[2] + b[1] * a[2], a[2] * b[2])

QSub(a, b) == QAdd(a, <<-b[1], b[2]>>)

\* a / b: x / 0 is inf with the sign of x, 0 / 0 and inf / inf are nan (a
\* RuntimeWarning, not an error).
QDiv(a, b) ==
    IF a = <<0, 0>> \/ b = <<0, 0>> THEN <<0, 0>>
    ELSE IF b[2] = 0 THEN (IF a[2] = 0 THEN <<0, 0>> ELSE <<0, 1>>)
    ELSE IF a[2] = 0 THEN <<a[1] * (IF b[1] < 0 THEN -1 ELSE 1), 0>>
    ELSE Q(a[1] * b[2], a[2] * b[1])

\* A value is a Python or numpy scalar, or a frame; a scalar broadcasts.
Scalar(q) == [kind |-> "scalar", q |-> q]
Frame(data) == [kind |-> "frame", data |-> data]

At(v, x) == IF v.kind = "scalar" THEN v.q ELSE v.data[x]

Width(a, b) == IF a.kind = "frame" THEN Len(a.data) ELSE Len(b.data)

\* a - b
Subtract(a, b) ==
    IF a.kind = "scalar" /\ b.kind = "scalar" THEN Scalar(QSub(a.q, b.q))
    ELSE Frame([x \in 1..Width(a, b) |-> QSub(At(a, x), At(b, x))])

\* a / b
Divide(a, b) ==
    IF a.kind = "scalar" /\ b.kind = "scalar" THEN Scalar(QDiv(a.q, b.q))
    ELSE Frame([x \in 1..Width(a, b) |-> QDiv(At(a, x), At(b, x))])

RECURSIVE QSum(_)
QSum(qs) == IF qs = <<>> THEN <<0, 1>> ELSE QAdd(Head(qs), QSum(Tail(qs)))

\* np.mean(a)
Mean(a) ==
    IF a.kind = "scalar" THEN Scalar(a.q)
    ELSE Scalar(QDiv(QSum(a.data), <<Len(a.data), 1>>))

(***************************************************************************)
(* Calibration reducer: files                                               *)
(***************************************************************************)

\* What a calibration directory may be: missing, without any FITS file, one
\* frame, two frames.
CalibListings ==
    {[exists |-> FALSE, names |-> {}],
     [exists |-> TRUE, names |-> {[stem |-> "notes", ext |-> "txt"]}],
     [exists |-> TRUE, names |-> {[stem |-> "a", ext |-> "fits"]}],
     [exists |-> TRUE, names |-> {[stem |-> "a", ext |-> "fits"],
                                  [stem |-> "B", ext |-> "FIT"]}]}

\* The acquisition times the DATE-OBS headers are drawn from.
DateObs == {1, 2}

\* get_timestamps(filenames): the parsed DATE-OBS header of each file.
get_timestamps(names) == [k \in 1..Len(names) |-> dateobs[names[k]]]

\* for filename in filenames: master += load_fits_data(filename)
RECURSIVE Accumulate(_, _)
Accumulate(names, acc) ==
    IF names = <<>> THEN acc
    ELSE Accumulate(Tail(names),
                    [x \in 1..Len(acc) |->
                        FracAdd(acc[x], load_normalized(Head(names))[x])])

\* create_master(directory, default): the value it returns, the warning it
\* emits, the error it raises.
create_master(l, d) ==
    LET names == list_fits_of(l)
    IN  IF NotFilenames(List(names))
        THEN IF d.given
             THEN [raised |-> "none", value |-> Scalar(<<d.value, 1>>),
                   warnings |-> <<[empty |-> List(names), value |-> d.value]>>]
             ELSE [raised |-> "ValueError", value |-> NoData, warnings |-> <<>>]
        ELSE LET sum == Accumulate(names, zeros_like(load_normalized(names[1])))
             IN  [raised |-> "none",
                  value |-> Frame([x \in 1..Len(sum) |->
                                     Frac(sum[x][1], sum[x][2] * Len(names))]),
                  warnings |-> <<>>]

\* A reducer that passes no default for its calibration sets.
master_default_missing(which) == NoDefault

\* The default reduction passes for each master.
master_default(which) ==
    CASE which = "sci_dark" -> Default(0)
      [] which = "flat_dark" -> Default(0)
      [] which = "flat" -> Default(1)

\* Science file names left in directory order.
filenames_unordered(names, order) == names

\* np.array(sci_filenames)[sci_order]
filenames_in_order(names, order) == [k \in 1..Len(order) |-> names[order[k]]]

(***************************************************************************)
(* reduction(sci_dir, sci_dark_dir, flat_dir, flat_dark_dir)                *)
(***************************************************************************)

\* Lines 132-136: the three masters, then the flat minus its dark, divided
\* by its mean. An error raised by create_master leaves reduction.
ReductionMasters ==
    /\ rpc = "start"
    /\ LET sci_dark == create_master(dirs.sci_dark, master_default("sci_dark"))
           flat_dark == create_master(dirs.flat_dark, master_default("flat_dark"))
           flat == create_master(dirs.flat, master_default("flat"))
       IN  IF sci_dark.raised # "none"
           THEN /\ rpc' = "raised"
                /\ reduced' = [raised |-> sci_dark.raised]
                /\ UNCHANGED <<masters, rwarnings>>
           ELSE IF flat_dark.raised # "none"
           THEN /\ rpc' = "raised"
                /\ reduced' = [raised |-> flat_dark.raised]
                /\ rwarnings' = sci_dark.warnings
                /\ UNCHANGED masters
           ELSE IF flat.raised # "none"
           THEN /\ rpc' = "raised"
                /\ reduced' = [raised |-> flat.raised]
                /\ rwarnings' = sci_dark.warnings \o flat_dark.warnings
                /\ UNCHANGED masters
           ELSE LET minus == Subtract(flat.value, flat_dark.value)
                IN  /\ masters' = [master_sci_dark |-> sci_dark.value,
                                   master_flat_dark |-> flat_dark.value,
                                   master_flat |-> Divide(minus, Mean(minus))]
                    /\ rwarnings' = sci_dark.warnings \o flat_dark.warnings
                                        \o flat.warnings
                    /\ rpc' = "list"
                    /\ UNCHANGED reduced
    /\ UNCHANGED <<dirs, dateobs, sci_filenames, timestamps, sci_images,
                   notReduce>>

\* Lines 138-140: the science files are listed; none is an error.
ReductionList ==
    /\ rpc = "list"
    /\ sci_filenames' = list_fits_of(dirs.sci)
    /\ IF NotFilenames(List(list_fits_of(dirs.sci)))
       THEN /\ rpc' = "raised"
            /\ reduced' = [raised |-> "ValueError"]
       ELSE /\ rpc' = "sort"
            /\ UNCHANGED reduced
    /\ UNCHANGED <<dirs, dateobs, masters, timestamps, sci_images, rwarnings,
                   notReduce>>

\* Lines 143-146: timestamps and file names are put in the order argsort
\* gives for the timestamps.
ReductionSort ==
    /\ rpc = "sort"
    /\ \E sci_order \in argsort(get_timestamps(sci_filenames)) :
          /\ timestamps' = [k \in 1..Len(sci_order) |->
                              get_timestamps(sci_filenames)[sci_order[k]]]
          /\ sci_filenames' = filenames_in_order(sci_filenames, sci_order)
    /\ rpc' = "load"
    /\ UNCHANGED <<dirs, dateobs, masters, sci_images, rwarnings, reduced,
                   notReduce>>

\* Lines 152-154: sci_images[i] = (sci - master_sci_dark) / master_flat
ReductionLoad ==
    /\ rpc = "load"
    /\ Len(sci_images) < Len(sci_filenames)
    /\ LET sci == Frame(load_normalized(sci_filenames[Len(sci_images) + 1]))
       IN  sci_images' = Append(sci_images,
                Divide(Subtract(sci, masters.master_sci_dark),
                       masters.master_flat).data)
    /\ UNCHANGED <<dirs, dateobs, rpc, masters, sci_filenames, timestamps,
                   rwarnings, reduced, notReduce>>

\* Line 155: return sci_images, timestamps
ReductionReturn ==
    /\ rpc = "load"
    /\ Len(sci_images) = Len(sci_filenames)
    /\ reduced' = [raised |-> "none", sci_images |-> sci_images,
                   timestamps |-> timestamps]
    /\ rpc' = "done"
    /\ UNCHANGED <<dirs, dateobs, masters, sci_filenames, timestamps,
                   sci_images, rwarnings, notReduce>>

InitReduce ==
    /\ IdleCache
    /\ IdleAlign
    /\ IdleMatch
    /\ IdleMaster
    /\ IdleConsole
    /\ dirs \in [sci : Listings, sci_dark : CalibListings,
                 flat : CalibListings, flat_dark : CalibListings]
    /\ dateobs \in [FitsNames -> DateObs]
    /\ rpc = "start"
    /\ masters = NoData
    /\ sci_filenames = <<>>
    /\ timestamps = <<>>
    /\ sci_images = <<>>
    /\ rwarnings = <<>>
    /\ reduced = NoData

NextReduce ==
    \/ ReductionMasters
    \/ ReductionList
    \/ ReductionSort
    \/ ReductionLoad
    \/ ReductionReturn

\* One call of reduction.
SpecReduce == InitReduce /\ [][NextReduce]_vars

(***************************************************************************)
(* Calibration reducer: claims                                              *)
(***************************************************************************)

\* A directory holds no FITS file: it is missing, or none of its entries
\* has a FITS name.
NoFits(l) == ~l.exists \/ \A n \in l.names : ~RegMatch(n)

ReduceEnded == rpc \in {"done", "raised"}

\* C12: reduction fails with the empty-input error (ValueError) whenever the
\* science frame set is empty, whatever the calibration sets hold, and
\* returns no cube; when the science set is not empty, an empty science-dark,
\* flat-dark or flat set never makes it fail: it returns, having warned once
\* per empty calibration set.
C12_EmptyScienceFails ==
    ReduceEnded =>
        /\ NoFits(dirs.sci) =>
              /\ rpc = "raised"
              /\ reduced = [raised |-> "ValueError"]
              /\ sci_images = <<>>
        /\ ~NoFits(dirs.sci) =>
              /\ rpc = "done"
              /\ reduced.raised = "none"
              /\ Len(rwarnings) =
                    Cardinality({w \in {"sci_dark", "flat_dark", "flat"} :
                                    NoFits(dirs[w])})

\* C12 witness: reduction failed on a science directory without FITS files
\* while the flat set was empty and both dark sets were not.
C12_Witness ==
    /\ rpc = "raised"
    /\ dirs.sci.exists
    /\ dirs.sci.names # {}
    /\ NoFits(dirs.flat)
    /\ ~NoFits(dirs.sci_dark)
    /\ ~NoFits(dirs.flat_dark)

\* The science files, in directory order.
ScienceFiles == list_fits_of(dirs.sci)

\* The calibrated image of a science file, with the masters of this run.
Calibrated(name) ==
    Divide(Subtract(Frame(load_normalized(name)), masters.master_sci_dark),
           masters.master_flat).data

\* The orders in which the science files can be taken, each file once.
FileOrders ==
    {o \in [1..Len(ScienceFiles) -> 1..Len(ScienceFiles)] :
        \A j, k \in 1..Len(ScienceFiles) : j # k => o[j] # o[k]}

\* C13: reduction returns N frames and N timestamps for N science files;
\* the timestamps are non-decreasing; and there is an order of the science
\* files, each taken once, in which output timestamp k is the acquisition
\* time of the k-th file and output frame k its calibrated image.
C13_SortedCoPermuted ==
    rpc = "done" =>
        /\ Len(reduced.sci_images) = Len(ScienceFiles)
        /\ Len(reduced.timestamps) = Len(ScienceFiles)
        /\ \A k \in 1..(Len(ScienceFiles) - 1) :
              reduced.timestamps[k] <= reduced.timestamps[k + 1]
        /\ \E o \in FileOrders :
              \A k \in 1..Len(ScienceFiles) :
                  /\ reduced.timestamps[k] = dateobs[ScienceFiles[o[k]]]
                  /\ reduced.sci_images[k] = Calibrated(ScienceFiles[o[k]])

\* C13 witness: three science files whose directory order is not their
\* acquisition order, two of them sharing a timestamp, with images that
\* tell the files apart.
C13_Witness ==
    /\ rpc = "done"
    /\ Len(ScienceFiles) = 3
    /\ dateobs[ScienceFiles[1]] > dateobs[ScienceFiles[2]]
    /\ dateobs[ScienceFiles[2]] = dateobs[ScienceFiles[3]]
    /\ reduced.sci_images[1] # reduced.sci_images[3]

(***************************************************************************)
(* Console entry points: align.main and prepare_spectra.main                *)
(***************************************************************************)

\* The write targets of each entry point, in the order main() tests them.
OutputFiles(name) ==
    IF name = "align" THEN <<"output">>
    ELSE <<"sci_cube_r", "master_calib", "master_calib_r">>

Targets(name) == {OutputFiles(name)[k] : k \in 1..Len(OutputFiles(name))}

\* What is at a path is "absent", "old" (there when main() was entered),
\* "other" (created by another process since) or "new" (written by this
\* run). os.path.exists(path):
Exists(d, t) == d[t] # "absent"

\* An entry point that goes on whatever is at the path.
OutputConflictIgnored(d, t, ow) == FALSE

\* os.path.exists(output) and not args.overwrite
OutputConflict(d, t, ow) == Exists(d, t) /\ ~ow

\* hdulist.writeto(filename, overwrite=overwrite): an existing file is
\* refused with OSError unless overwrite is set.
Refused(d, t, ow) == Exists(d, t) /\ ~ow

Loaded(what) == [op |-> "load", what |-> what]
Computed(what) == [op |-> "compute", what |-> what]
Written(t, replaced) == [op |-> "write", what |-> t, replaced |-> replaced]

Failure(class, at) == [class |-> class, at |-> at]

\* One write of main(): save_fits or writeto on target t, then on to `next`.
WriteStep(t, next) ==
    IF Refused(disk, t, overwrite)
    THEN /\ error' = Failure("OSError", "write")
         /\ spc' = "raised"
         /\ UNCHANGED <<disk, effects>>
    ELSE /\ effects' = Append(effects, Written(t, Exists(disk, t)))
         /\ disk' = [disk EXCEPT ![t] = "new"]
         /\ spc' = next
         /\ UNCHANGED error

\* One load of main(): a missing input raises.
LoadStep(what, class, next) ==
    IF haveInput
    THEN /\ effects' = Append(effects, Loaded(what))
         /\ spc' = next
         /\ UNCHANGED error
    ELSE /\ error' = Failure(class, "load")
         /\ spc' = "raised"
         /\ UNCHANGED effects

\* align.main, lines 43-45
AlignCheck ==
    /\ script = "align"
    /\ spc = "check"
    /\ IF OutputConflict(disk, "output", overwrite)
       THEN /\ error' = Failure("OSError", "check")
            /\ spc' = "raised"
       ELSE /\ spc' = "load"
            /\ UNCHANGED error
    /\ UNCHANGED <<script, overwrite, haveInput, disk, entry, effects,
                   notConsole>>

\* align.main, lines 47-48: load_fits_data(args.input, ...)
AlignLoad ==
    /\ script = "align"
    /\ spc = "load"
    /\ LoadStep("input", "FileNotFoundError", "compute")
    /\ UNCHANGED <<script, overwrite, haveInput, disk, entry, notConsole>>

\* align.main, lines 49-52: compute_and_save runs register_stars ...
AlignCompute ==
    /\ script = "align"
    /\ spc = "compute"
    /\ effects' = Append(effects, Computed("register_stars"))
    /\ spc' = "save"
    /\ UNCHANGED <<script, overwrite, haveInput, disk, entry, error,
                   notConsole>>

\* ... and saves the result to args.output with overwrite=args.overwrite.
AlignSave ==
    /\ script = "align"
    /\ spc = "save"
    /\ WriteStep("output", "done")
    /\ UNCHANGED <<script, overwrite, haveInput, entry, notConsole>>

\* The first output file, in the order of the tuple, that is in conflict; 0
\* when there is none.
FirstConflict ==
    LET hits == {k \in 1..Len(OutputFiles(script)) :
                    OutputConflict(disk, OutputFiles(script)[k], overwrite)}
    IN  IF hits = {} THEN 0 ELSE CHOOSE k \in hits : \A j \in hits : k <= j

\* prepare_spectra.main, lines 72-81
PrepareCheck ==
    /\ script = "prepare_spectra"
    /\ spc = "check"
    /\ IF FirstConflict # 0
       THEN /\ error' = Failure("OSError", "check")
            /\ spc' = "raised"
       ELSE /\ spc' = "master"
            /\ UNCHANGED error
    /\ UNCHANGED <<script, overwrite, haveInput, disk, entry, effects,
                   notConsole>>

\* Lines 83-91: the master calibration frame is built and rotated.
PrepareMaster ==
    /\ script = "prepare_spectra"
    /\ spc = "master"
    /\ IF haveInput
       THEN /\ effects' = effects \o <<Loaded("calib_path"),
                                       Computed("find_spectrum_orientation"),
                                       Computed("rotate")>>
            /\ spc' = "save_master"
            /\ UNCHANGED error
       ELSE /\ error' = Failure("ValueError", "load")
            /\ spc' = "raised"
            /\ UNCHANGED effects
    /\ UNCHANGED <<script, overwrite, haveInput, disk, entry, notConsole>>

\* Lines 92-93: save_fits(master_calib, args.master_calib, overwrite=...)
PrepareSaveMaster ==
    /\ script = "prepare_spectra"
    /\ spc = "save_master"
    /\ WriteStep("master_calib", "save_master_r")
    /\ UNCHANGED <<script, overwrite, haveInput, entry, notConsole>>

\* Lines 94-95: save_fits(master_calib_r, args.master_calib_r, overwrite=...)
PrepareSaveMasterR ==
    /\ script = "prepare_spectra"
    /\ spc = "save_master_r"
    /\ WriteStep("master_calib_r", "cube")
    /\ UNCHANGED <<script, overwrite, haveInput, entry, notConsole>>

\* Lines 97-102: the science cube is opened and rotated.
PrepareCube ==
    /\ script = "prepare_spectra"
    /\ spc = "cube"
    /\ IF haveInput
       THEN /\ effects' = effects \o <<Loaded("sci_cube"), Computed("rotate")>>
            /\ spc' = "write_cube"
            /\ UNCHANGED error
       ELSE /\ error' = Failure("FileNotFoundError", "load")
            /\ spc' = "raised"
            /\ UNCHANGED effects
    /\ UNCHANGED <<script, overwrite, haveInput, disk, entry, notConsole>>

\* Line 103: sci_cube_hdulist.writeto(args.sci_cube_r, overwrite=...)
PrepareWriteCube ==
    /\ script = "prepare_spectra"
    /\ spc = "write_cube"
    /\ WriteStep("sci_cube_r", "done")
    /\ UNCHANGED <<script, overwrite, haveInput, entry, notConsole>>

\* Another process creates a file at a write target while main() runs,
\* after the test of the outputs.
OtherProcessCreates ==
    /\ spc \notin {"idle", "check", "done", "raised"}
    /\ \E t \in Targets(script) :
          /\ disk[t] = "absent"
          /\ disk' = [disk EXCEPT ![t] = "other"]
    /\ UNCHANGED <<script, overwrite, haveInput, entry, spc, effects, error,
                   notConsole>>

InitConsole ==
    /\ IdleCache
    /\ IdleAlign
    /\ IdleMatch
    /\ IdleMaster
    /\ IdleReduce
    /\ script \in {"align", "prepare_spectra"}
    /\ overwrite \in BOOLEAN
    /\ haveInput \in BOOLEAN
    /\ disk \in [Targets(script) -> {"absent", "old"}]
    /\ entry = disk
    /\ spc = "check"
    /\ effects = <<>>
    /\ error = NoData

NextConsole ==
    \/ AlignCheck
    \/ AlignLoad
    \/ AlignCompute
    \/ AlignSave
    \/ PrepareCheck
    \/ PrepareMaster
    \/ PrepareSaveMaster
    \/ PrepareSaveMasterR
    \/ PrepareCube
    \/ PrepareWriteCube
    \/ OtherProcessCreates

\* One run of an entry point.
SpecConsole == InitConsole /\ [][NextConsole]_vars

(***************************************************************************)
(* Console entry points: claims                                             *)
(***************************************************************************)

\* A write target existed when main() was entered and -O was not given.
ConflictAtEntry == ~overwrite /\ \E t \in Targets(script) : entry[t] = "old"

\* C14: when a write target exists at entry and overwrite was not
\* authorized, main() raises OSError from its test of the outputs, having
\* loaded nothing, computed nothing and written nothing, and every target is
\* as it was; and without overwrite no write of the run ever replaces a file
\* that exists, whoever created it.
C14_OutputConflictFailFast ==
    /\ ConflictAtEntry =>
          /\ effects = <<>>
          /\ disk = entry
          /\ spc \in {"check", "raised"}
          /\ spc = "raised" => error = Failure("OSError", "check")
    /\ ~overwrite =>
          /\ \A k \in 1..Len(effects) :
                effects[k].op = "write" => ~effects[k].replaced
          /\ \A t \in Targets(script) : entry[t] = "old" => disk[t] = "old"
          /\ \A t \in Targets(script) :
                disk[t] = "new" => entry[t] = "absent"

\* C14 witness: prepare_spectra ended on a conflict on its last-tested
\* output only, with its inputs present.
C14_Witness ==
    /\ script = "prepare_spectra"
    /\ spc = "raised"
    /\ haveInput
    /\ ~overwrite
    /\ entry = [t \in Targets(script) |->
                  IF t = "master_calib_r" THEN "old" ELSE "absent"]

====
